---- MODULE Spec2Model ----
(***************************************************************************)
(* Model of class Uart (src/uart.hpp): the stored logical settings, the    *)
(* staged termios record _tty, the file descriptor _fd and the _open flag, *)
(* with one action per public member function.  The class is used from a   *)
(* single thread and every member function runs to completion, so each     *)
(* call is one atomic step.                                                *)
(***************************************************************************)
EXTENDS Integers, Sequences, FiniteSets, TLC

VARIABLES
    _baudRate,   \* speed_t _baudRate
    _hfc,        \* bool _hfc
    _sfc,        \* bool _sfc
    _parity,     \* char _parity
    _stopBits,   \* int _stopBits
    _dataBits,   \* int _dataBits
    _fd,         \* int _fd
    _tty,        \* struct termios _tty
    _open,       \* bool _open
    alive,       \* FALSE once the destructor has run
    call,        \* observation of the last member-function call
    wasOpen,     \* value of _open when the last call started
    everOpened,  \* TRUE once some open() has returned true
    reconfig     \* the call before the last one, when it was a mutator that
                 \* succeeded on an open line; op "none" otherwise

vars == <<_baudRate, _hfc, _sfc, _parity, _stopBits, _dataBits, _fd, _tty,
          _open, alive, call, wasOpen, everOpened, reconfig>>

-----------------------------------------------------------------------------
(* Bounds of the explored inputs *)

MaxDataBitsArg == 9
MaxStopBitsArg == 3

DataBitsArgs == 5..MaxDataBitsArg
StopBitsArgs == 1..MaxStopBitsArg
BaudRateArgs == {9600, 115200, 12345}
ParityArgs   == {"N", "E", "O", "X"}

-----------------------------------------------------------------------------
(* termios.h flag masks, as sets of bit names; | is \cup, & is \cap and     *)
(* & ~m is \ m.                                                             *)

CSIZE   == {"CSIZE_lo", "CSIZE_hi"}
CS5     == {}
CS6     == {"CSIZE_lo"}
CS7     == {"CSIZE_hi"}
CS8     == {"CSIZE_lo", "CSIZE_hi"}
CSTOPB  == {"CSTOPB"}
PARENB  == {"PARENB"}
PARODD  == {"PARODD"}
CRTSCTS == {"CRTSCTS"}
IXON    == {"IXON"}
IXOFF   == {"IXOFF"}
IXANY   == {"IXANY"}

CFlagBits == CSIZE \cup CSTOPB \cup PARENB \cup PARODD \cup CRTSCTS
IFlagBits == IXON \cup IXOFF \cup IXANY

NoFd == -1

(* static const std::map<speed_t, speed_t> baudRateMap *)
baudRateMap ==
    (0 :> "B0") @@ (50 :> "B50") @@ (75 :> "B75") @@
    (110 :> "B110") @@ (134 :> "B134") @@ (150 :> "B150") @@
    (200 :> "B200") @@ (300 :> "B300") @@ (600 :> "B600") @@
    (1200 :> "B1200") @@ (1800 :> "B1800") @@ (2400 :> "B2400") @@
    (4800 :> "B4800") @@ (9600 :> "B9600") @@ (19200 :> "B19200") @@
    (38400 :> "B38400") @@ (57600 :> "B57600") @@ (115200 :> "B115200") @@
    (230400 :> "B230400") @@ (460800 :> "B460800") @@ (500000 :> "B500000") @@
    (576000 :> "B576000") @@ (921600 :> "B921600") @@ (1000000 :> "B1000000") @@
    (1152000 :> "B1152000") @@ (1500000 :> "B1500000") @@ (2000000 :> "B2000000") @@
    (2500000 :> "B2500000") @@ (3000000 :> "B3000000") @@ (3500000 :> "B3500000") @@
    (4000000 :> "B4000000")

(* struct termios _tty is not initialised by the constructor: it is zero   *)
(* in an object of static storage duration and indeterminate otherwise.    *)
(* Explored: the zero record and the record with every flag bit set.       *)
IndeterminateTty ==
    { [c_cflag |-> {}, c_iflag |-> {}, c_ispeed |-> "B0", c_ospeed |-> "B0"],
      [c_cflag |-> CFlagBits, c_iflag |-> IFlagBits,
       c_ispeed |-> "B0", c_ospeed |-> "B0"] }

-----------------------------------------------------------------------------
(* The object as a record, so that member functions are operators from an  *)
(* object to the object they leave behind.                                 *)

Self == [_baudRate |-> _baudRate, _hfc |-> _hfc, _sfc |-> _sfc,
         _parity |-> _parity, _stopBits |-> _stopBits,
         _dataBits |-> _dataBits, _fd |-> _fd, _tty |-> _tty,
         _open |-> _open]

\* result of a member function: the object, the return value, the exception
\* that left the function ("none" when it returned) and the nested calls made
Outcome(o, ret, exc, trace) ==
    [o |-> o, ret |-> ret, exc |-> exc, trace |-> trace]

\* a local variable: F applied to the value of v, with v computed once
Local(v, F(_)) == CHOOSE y \in {F(x) : x \in {v}} : TRUE

\* cfsetispeed(&_tty, code)
cfsetispeed(t, code) == [t EXCEPT !.c_ispeed = code]

\* cfsetospeed(&_tty, code)
cfsetospeed(t, code) == [t EXCEPT !.c_ospeed = code]

\* ::close(fd): fails on a descriptor that is not open, otherwise the driver
\* decides
closeResults(f) == IF f = NoFd THEN {-1} ELSE {0, -1}

\* tcsetattr(fd, TCSANOW, &tty)
tcsetattrResults(f) == IF f = NoFd THEN {-1} ELSE {0, -1}

\* tcgetattr(fd, &tty)
tcgetattrResults(f) == IF f = NoFd THEN {-1} ELSE {0, -1}

\* the record a driver call leaves in the trace of nested calls: its name and
\* what it returned
driverCall(name, rc) ==
    <<name, IF rc = -1 THEN "returned -1" ELSE "returned 0">>

-----------------------------------------------------------------------------
(* Member functions *)

\* void configBaudRate(speed_t baudRate)
configBaudRate(o, baudRate) ==
    LET o1 == [o EXCEPT !._baudRate = baudRate, !._open = FALSE]
    IN  IF o1._baudRate \notin DOMAIN baudRateMap
        THEN Outcome(o1, "void", "invalid_argument", <<"configBaudRate">>)
        ELSE LET item == baudRateMap[o1._baudRate]
             IN  Outcome([o1 EXCEPT !._tty =
                              cfsetospeed(cfsetispeed(o1._tty, item), item)],
                         "void", "none", <<"configBaudRate">>)

\* void configDataBits(int dataBits)
configDataBits(o, dataBits) ==
    LET o1 == [o EXCEPT !._dataBits = dataBits, !._open = FALSE,
                        !._tty.c_cflag = @ \ CSIZE]
        set(m) == Outcome([o1 EXCEPT !._tty.c_cflag = @ \cup m],
                          "void", "none", <<"configDataBits">>)
    IN  CASE dataBits = 5 -> set(CS5)
          [] dataBits = 6 -> set(CS6)
          [] dataBits = 7 -> set(CS7)
          [] dataBits = 8 -> set(CS8)
          [] OTHER -> Outcome(o1, "void", "invalid_argument",
                              <<"configDataBits">>)

\* void configParity(char parity)
configParity(o, parity) ==
    LET o1 == [o EXCEPT !._parity = parity, !._open = FALSE]
    IN  CASE parity = "N" ->
               Outcome([o1 EXCEPT !._tty.c_cflag = @ \ PARENB],
                       "void", "none", <<"configParity">>)
          [] parity = "E" ->
               Outcome([o1 EXCEPT !._tty.c_cflag = (@ \cup PARENB) \ PARODD],
                       "void", "none", <<"configParity">>)
          [] parity = "O" ->
               Outcome([o1 EXCEPT !._tty.c_cflag = (@ \cup PARENB) \cap PARODD],
                       "void", "none", <<"configParity">>)
          [] OTHER ->
               Outcome(o1, "void", "invalid_argument", <<"configParity">>)

\* configStopBits without its "_open = false" statement
configStopBits_keepsOpen(o, stopBits) ==
    LET o1 == [o EXCEPT !._stopBits = stopBits]
    IN  IF stopBits = 1
        THEN Outcome([o1 EXCEPT !._tty.c_cflag = @ \ CSTOPB],
                     "void", "none", <<"configStopBits">>)
        ELSE IF stopBits = 2
        THEN Outcome([o1 EXCEPT !._tty.c_cflag = @ \cup CSTOPB],
                     "void", "none", <<"configStopBits">>)
        ELSE Outcome(o1, "void", "invalid_argument", <<"configStopBits">>)

\* void configStopBits(int stopBits)
configStopBits(o, stopBits) ==
    LET o1 == [o EXCEPT !._stopBits = stopBits, !._open = FALSE]
    IN  IF stopBits = 1
        THEN Outcome([o1 EXCEPT !._tty.c_cflag = @ \ CSTOPB],
                     "void", "none", <<"configStopBits">>)
        ELSE IF stopBits = 2
        THEN Outcome([o1 EXCEPT !._tty.c_cflag = @ \cup CSTOPB],
                     "void", "none", <<"configStopBits">>)
        ELSE Outcome(o1, "void", "invalid_argument", <<"configStopBits">>)

\* void configHardwareFlowControl(bool enable)
configHardwareFlowControl(o, enable) ==
    LET o1 == [o EXCEPT !._hfc = enable, !._open = FALSE]
    IN  IF enable
        THEN Outcome([o1 EXCEPT !._tty.c_cflag = @ \cup CRTSCTS],
                     "void", "none", <<"configHardwareFlowControl">>)
        ELSE Outcome([o1 EXCEPT !._tty.c_cflag = @ \ CRTSCTS],
                     "void", "none", <<"configHardwareFlowControl">>)

\* void configSoftwareFlowControl(bool enable)
configSoftwareFlowControl(o, enable) ==
    LET o1 == [o EXCEPT !._sfc = enable, !._open = FALSE]
    IN  IF enable
        THEN Outcome([o1 EXCEPT !._tty.c_iflag =
                          @ \cup (IXON \cup IXOFF \cup IXANY)],
                     "void", "none", <<"configSoftwareFlowControl">>)
        ELSE Outcome([o1 EXCEPT !._tty.c_iflag =
                          @ \ (IXON \cup IXOFF \cup IXANY)],
                     "void", "none", <<"configSoftwareFlowControl">>)

\* setAttributes() that ignores what tcsetattr returns
setAttributes_swallowsFailure(o, rc) ==
    LET o1 == [o EXCEPT !._open = FALSE]
    IN  Outcome(o1, "void", "none",
                <<"setAttributes">> \o driverCall("tcsetattr", rc))

\* void setAttributes(); rc is what tcsetattr(_fd, TCSANOW, &_tty) returns
setAttributes(o, rc) ==
    LET o1 == [o EXCEPT !._open = FALSE]
    IN  IF rc = -1
        THEN Outcome(o1, "void", "runtime_error",
                     <<"setAttributes">> \o driverCall("tcsetattr", rc))
        ELSE Outcome(o1, "void", "none",
                     <<"setAttributes">> \o driverCall("tcsetattr", rc))

\* close() that clears _open only once the driver has released the handle
close_marksAfterRelease(o, rc) ==
    IF o._fd # NoFd
    THEN IF rc = -1
         THEN Outcome(o, "void", "runtime_error",
                      <<"close">> \o driverCall("::close", rc))
         ELSE Outcome([o EXCEPT !._fd = NoFd, !._open = FALSE], "void", "none",
                      <<"close">> \o driverCall("::close", rc))
    ELSE Outcome(o, "void", "none", <<"close">>)

\* close() without its "_fd != -1" test: the driver is always asked to release
close_unguarded(o, rc) ==
    LET o1 == [o EXCEPT !._open = FALSE]
    IN  IF rc = -1
        THEN Outcome(o1, "void", "runtime_error",
                     <<"close">> \o driverCall("::close", rc))
        ELSE Outcome([o1 EXCEPT !._fd = NoFd], "void", "none",
                     <<"close">> \o driverCall("::close", rc))

\* void close(); rc is what ::close(_fd) returns when it is called
close(o, rc) ==
    LET o1 == [o EXCEPT !._open = FALSE]
    IN  IF o1._fd # NoFd
        THEN IF rc = -1
             THEN Outcome(o1, "void", "runtime_error",
                          <<"close">> \o driverCall("::close", rc))
             ELSE Outcome([o1 EXCEPT !._fd = NoFd], "void", "none",
                          <<"close">> \o driverCall("::close", rc))
        ELSE Outcome(o1, "void", "none", <<"close">>)

\* a statement of a try block after the statements that produced r: it runs
\* only when none of them threw
andThen(r, n) ==
    IF r.exc # "none" THEN r
    ELSE Outcome(n.o, n.ret, n.exc, r.trace \o n.trace)

\* configure()'s try block with configDataBits called before configStopBits
configureStatements_dataBitsEarlier ==
    <<"configBaudRate", "configParity", "configDataBits", "configStopBits",
      "configHardwareFlowControl", "configSoftwareFlowControl">>

\* the statements of configure()'s try block, in order
configureStatements ==
    <<"configBaudRate", "configParity", "configStopBits", "configDataBits",
      "configHardwareFlowControl", "configSoftwareFlowControl">>

\* reapply with the stop bits configure()'s comment names ("1 stop bit")
\* in place of the stored setting
reapply_fixedStopBits(stmt, o) ==
    CASE stmt = "configBaudRate" -> configBaudRate(o, o._baudRate)
      [] stmt = "configParity"   -> configParity(o, o._parity)
      [] stmt = "configStopBits" -> configStopBits(o, 1)
      [] stmt = "configDataBits" -> configDataBits(o, o._dataBits)
      [] stmt = "configHardwareFlowControl" ->
             configHardwareFlowControl(o, o._hfc)
      [] stmt = "configSoftwareFlowControl" ->
             configSoftwareFlowControl(o, o._sfc)

\* one statement of configure()'s try block: a mutator called with the stored
\* setting
reapply(stmt, o) ==
    CASE stmt = "configBaudRate" -> configBaudRate(o, o._baudRate)
      [] stmt = "configParity"   -> configParity(o, o._parity)
      [] stmt = "configStopBits" -> configStopBits(o, o._stopBits)
      [] stmt = "configDataBits" -> configDataBits(o, o._dataBits)
      [] stmt = "configHardwareFlowControl" ->
             configHardwareFlowControl(o, o._hfc)
      [] stmt = "configSoftwareFlowControl" ->
             configSoftwareFlowControl(o, o._sfc)

\* the try block of configure() from statement i on, r being the outcome of
\* the statements before it
RECURSIVE tryBlock(_, _)
tryBlock(r, i) ==
    IF i > Len(configureStatements) THEN r
    ELSE Local(andThen(r, reapply(configureStatements[i], r.o)),
               LAMBDA x : tryBlock(x, i + 1))

\* configure() without its catch clause for std::invalid_argument
configure_missesInvalidArgument(o) ==
    Local(tryBlock(Outcome(o, "void", "none", <<"configure">>), 1),
          LAMBDA r :
              IF r.exc = "invalid_argument"
              THEN Outcome(r.o, "none", "invalid_argument", r.trace)
              ELSE IF r.exc = "runtime_error"
              THEN Outcome(r.o, "false", "none", r.trace)
              ELSE Outcome(r.o, "true", "none", r.trace))

\* bool configure()
configure(o) ==
    Local(tryBlock(Outcome(o, "void", "none", <<"configure">>), 1),
          LAMBDA r :
              IF r.exc = "invalid_argument"
              THEN Outcome(r.o, "false", "none", r.trace)
              ELSE IF r.exc = "runtime_error"
              THEN Outcome(r.o, "false", "none", r.trace)
              ELSE Outcome(r.o, "true", "none", r.trace))

\* open(): the path taken when configure() has returned false
openAbort(c, rcClose) ==
    Local(close(c.o, rcClose),
          LAMBDA k :
              IF k.exc \in {"none", "runtime_error"}
              THEN Outcome(k.o, "false", "none", c.trace \o k.trace)
              ELSE Outcome(k.o, "none", k.exc, c.trace \o k.trace))

\* openCommit without the try/catch around setAttributes()
openCommit_letsErrorEscape(c, rcSet) ==
    Local(setAttributes(c.o, rcSet),
          LAMBDA s :
              IF s.exc = "none"
              THEN Outcome([s.o EXCEPT !._open = TRUE], "true", "none",
                           c.trace \o s.trace)
              ELSE Outcome(s.o, "none", s.exc, c.trace \o s.trace))

\* open(): the path taken when configure() has returned true
openCommit(c, rcSet) ==
    Local(setAttributes(c.o, rcSet),
          LAMBDA s :
              IF s.exc \in {"none", "runtime_error"}
              THEN Outcome([s.o EXCEPT !._open = TRUE], "true", "none",
                           c.trace \o s.trace)
              ELSE Outcome(s.o, "none", s.exc, c.trace \o s.trace))

\* open() that first takes a descriptor from the driver, as the comment in
\* open() describes (step 1)
open_acquiresHandle(o, rcClose, rcSet) ==
    Local(configure([o EXCEPT !._fd = 3]),
          LAMBDA c :
              IF c.exc # "none" THEN Outcome(c.o, "none", c.exc, c.trace)
              ELSE IF c.ret = "false" THEN openAbort(c, rcClose)
              ELSE openCommit(c, rcSet))

\* open() that treats a failed setAttributes() like a failed configure():
\* close() and return false
open_abortOnCommitFailure(o, rcClose, rcSet) ==
    Local(configure(o),
          LAMBDA c :
              IF c.exc # "none" THEN Outcome(c.o, "none", c.exc, c.trace)
              ELSE IF c.ret = "false" THEN openAbort(c, rcClose)
              ELSE Local(setAttributes(c.o, rcSet),
                         LAMBDA s :
                             IF s.exc = "none"
                             THEN Outcome([s.o EXCEPT !._open = TRUE], "true",
                                          "none", c.trace \o s.trace)
                             ELSE openAbort(Outcome(s.o, "false", "none",
                                                    c.trace \o s.trace),
                                            rcClose)))

\* bool open(); rcClose and rcSet are the driver's answers to ::close and
\* tcsetattr should open() get to call them
open(o, rcClose, rcSet) ==
    Local(configure(o),
          LAMBDA c :
              IF c.exc # "none" THEN Outcome(c.o, "none", c.exc, c.trace)
              ELSE IF c.ret = "false" THEN openAbort(c, rcClose)
              ELSE openCommit(c, rcSet))

\* struct termios getAttributes() const; rc is what tcgetattr returns
getAttributes(o, rc) ==
    IF rc = -1
    THEN Outcome(o, "none", "runtime_error",
                 <<"getAttributes">> \o driverCall("tcgetattr", rc))
    ELSE Outcome(o, "termios", "none",
                 <<"getAttributes">> \o driverCall("tcgetattr", rc))

\* int getBaudRate() const: speed_t (32-bit unsigned) converted to int, which
\* wraps the values above INT_MAX to negative ones
getBaudRate == IF _baudRate > 2147483647
               THEN ((_baudRate - 2147483647) - 2147483647) - 2
               ELSE _baudRate

\* int getFd() const
getFd == _fd

\* int getStopBits() const
getStopBits == _stopBits

\* bool isOpen() const
isOpen == _open

\* bool getHfcState() const
getHfcState == _hfc

\* bool getSfcState() const
getSfcState == _sfc

-----------------------------------------------------------------------------
(* The state machine *)

\* the mutators, by the names the trace gives them
Mutators == {"configBaudRate", "configDataBits", "configParity",
             "configStopBits", "configHardwareFlowControl",
             "configSoftwareFlowControl"}

\* what the last call leaves in reconfig for the call that follows it
Reconfigured ==
    IF call.op \in Mutators /\ call.exc = "none" /\ wasOpen
    THEN [op |-> call.op, arg |-> call.arg]
    ELSE [op |-> "none", arg |-> "none"]

\* the object and the observation left by a call whose outcome is r
Returns(r, op, arg) ==
    /\ _baudRate' = r.o._baudRate
    /\ _hfc' = r.o._hfc
    /\ _sfc' = r.o._sfc
    /\ _parity' = r.o._parity
    /\ _stopBits' = r.o._stopBits
    /\ _dataBits' = r.o._dataBits
    /\ _fd' = r.o._fd
    /\ _tty' = r.o._tty
    /\ _open' = r.o._open
    /\ call' = [op |-> op, arg |-> arg, ret |-> r.ret, exc |-> r.exc,
                trace |-> r.trace]
    /\ wasOpen' = _open
    /\ everOpened' = (everOpened \/ (op = "open" /\ r.ret = "true"))
    /\ reconfig' = Reconfigured
    /\ UNCHANGED alive

\* Uart(port, baudRate, hfc, sfc, parity, stopBits, dataBits)
Init ==
    /\ _baudRate \in BaudRateArgs
    /\ _hfc \in BOOLEAN
    /\ _sfc \in BOOLEAN
    /\ _parity \in ParityArgs
    /\ _stopBits \in StopBitsArgs
    /\ _dataBits \in DataBitsArgs
    /\ _fd = -1
    /\ _tty \in IndeterminateTty
    /\ _open = FALSE
    /\ alive = TRUE
    /\ call = [op |-> "Uart", arg |-> "none", ret |-> "void", exc |-> "none",
               trace |-> <<>>]
    /\ wasOpen = FALSE
    /\ everOpened = FALSE
    /\ reconfig = [op |-> "none", arg |-> "none"]

Open ==
    /\ alive
    /\ \E rcClose \in closeResults(_fd), rcSet \in tcsetattrResults(_fd) :
           \E r \in {open(Self, rcClose, rcSet)} :
               Returns(r, "open", "none")

Close ==
    /\ alive
    /\ \E rc \in closeResults(_fd) : \E r \in {close(Self, rc)} :
               Returns(r, "close", "none")

ConfigBaudRate ==
    /\ alive
    /\ \E b \in BaudRateArgs :
           \E r \in {configBaudRate(Self, b)} :
               Returns(r, "configBaudRate", b)

ConfigDataBits ==
    /\ alive
    /\ \E d \in DataBitsArgs :
           \E r \in {configDataBits(Self, d)} :
               Returns(r, "configDataBits", d)

ConfigParity ==
    /\ alive
    /\ \E p \in ParityArgs : \E r \in {configParity(Self, p)} :
               Returns(r, "configParity", p)

ConfigStopBits ==
    /\ alive
    /\ \E s \in StopBitsArgs :
           \E r \in {configStopBits(Self, s)} :
               Returns(r, "configStopBits", s)

ConfigHardwareFlowControl ==
    /\ alive
    /\ \E e \in BOOLEAN :
           \E r \in {configHardwareFlowControl(Self, e)} :
               Returns(r, "configHardwareFlowControl", e)

ConfigSoftwareFlowControl ==
    /\ alive
    /\ \E e \in BOOLEAN :
           \E r \in {configSoftwareFlowControl(Self, e)} :
               Returns(r, "configSoftwareFlowControl", e)

SetAttributes ==
    /\ alive
    /\ \E rc \in tcsetattrResults(_fd) :
           \E r \in {setAttributes(Self, rc)} :
               Returns(r, "setAttributes", "none")

GetAttributes ==
    /\ alive
    /\ \E rc \in tcgetattrResults(_fd) :
           \E r \in {getAttributes(Self, rc)} :
               Returns(r, "getAttributes", "none")

\* ~Uart() {}
Destroy ==
    /\ alive
    /\ alive' = FALSE
    /\ call' = [op |-> "~Uart", arg |-> "none", ret |-> "void",
                exc |-> "none", trace |-> <<>>]
    /\ wasOpen' = _open
    /\ reconfig' = Reconfigured
    /\ UNCHANGED <<_baudRate, _hfc, _sfc, _parity, _stopBits, _dataBits, _fd,
                   _tty, _open, everOpened>>

Next ==
    \/ Open
    \/ Close
    \/ ConfigBaudRate
    \/ ConfigDataBits
    \/ ConfigParity
    \/ ConfigStopBits
    \/ ConfigHardwareFlowControl
    \/ ConfigSoftwareFlowControl
    \/ SetAttributes
    \/ GetAttributes
    \/ Destroy

Spec == Init /\ [][Next]_vars

-----------------------------------------------------------------------------
(* Vocabulary of the properties *)

Range(q) == {q[i] : i \in 1..Len(q)}

\* the trace holds a call of the driver function name that returned res
Returned(trace, name, res) ==
    \E i \in 1..(Len(trace) - 1) : trace[i] = name /\ trace[i + 1] = res

\* the stored setting a mutator writes, as the getters report it
SettingOf(op) ==
    CASE op = "configBaudRate" -> getBaudRate
      [] op = "configDataBits" -> _dataBits
      [] op = "configParity"   -> _parity
      [] op = "configStopBits" -> getStopBits
      [] op = "configHardwareFlowControl" -> getHfcState
      [] op = "configSoftwareFlowControl" -> getSfcState

\* the order in which the settings are to be re-applied
ClaimedOrder ==
    <<"configBaudRate", "configParity", "configStopBits", "configDataBits",
      "configHardwareFlowControl", "configSoftwareFlowControl">>

\* the allowed domain of each mutator's argument
InDomain(op, arg) ==
    CASE op = "configBaudRate" -> arg \in DOMAIN baudRateMap
      [] op = "configDataBits" -> arg \in {5, 6, 7, 8}
      [] op = "configParity"   -> arg \in {"N", "E", "O"}
      [] op = "configStopBits" -> arg \in {1, 2}
      [] OTHER -> TRUE

\* the six stored parameters are all valid
AllValid ==
    /\ InDomain("configBaudRate", _baudRate)
    /\ InDomain("configDataBits", _dataBits)
    /\ InDomain("configParity", _parity)
    /\ InDomain("configStopBits", _stopBits)

\* the position in ClaimedOrder of the first stored setting outside its
\* domain, or the last position when every setting is valid
FirstRejected ==
    LET bad == {i \in 1..Len(ClaimedOrder) :
                   ~InDomain(ClaimedOrder[i], SettingOf(ClaimedOrder[i]))}
    IN  IF bad = {} THEN Len(ClaimedOrder)
        ELSE CHOOSE i \in bad : \A j \in bad : i <= j

\* pendingAttributes encodes the six stored settings
Encodes ==
    /\ _baudRate \in DOMAIN baudRateMap
    /\ _tty.c_ispeed = baudRateMap[_baudRate]
    /\ _tty.c_ospeed = baudRateMap[_baudRate]
    /\ _dataBits \in {5, 6, 7, 8}
    /\ _tty.c_cflag \cap CSIZE =
           (CASE _dataBits = 5 -> CS5 [] _dataBits = 6 -> CS6
              [] _dataBits = 7 -> CS7 [] _dataBits = 8 -> CS8)
    /\ (_stopBits = 2) = (CSTOPB \subseteq _tty.c_cflag)
    /\ _stopBits \in {1, 2}
    /\ CASE _parity = "N" -> PARENB \cap _tty.c_cflag = {}
         [] _parity = "E" -> /\ PARENB \subseteq _tty.c_cflag
                             /\ PARODD \cap _tty.c_cflag = {}
         [] _parity = "O" -> /\ PARENB \subseteq _tty.c_cflag
                             /\ PARODD \subseteq _tty.c_cflag
         [] OTHER -> FALSE
    /\ _hfc = (CRTSCTS \subseteq _tty.c_cflag)
    /\ _tty.c_iflag \cap (IXON \cup IXOFF \cup IXANY) =
           (IF _sfc THEN IXON \cup IXOFF \cup IXANY ELSE {})

\* the bits of c_cflag and c_iflag that belong to a mutator's concern
OwnCFlag(op) ==
    CASE op = "configDataBits" -> CSIZE
      [] op = "configParity"   -> PARENB \cup PARODD
      [] op = "configStopBits" -> CSTOPB
      [] op = "configHardwareFlowControl" -> CRTSCTS
      [] OTHER -> {}

OwnIFlag(op) ==
    IF op = "configSoftwareFlowControl" THEN IXON \cup IXOFF \cup IXANY
    ELSE {}

-----------------------------------------------------------------------------
(* C1..C10 *)

\* C1: in every reachable state, isOpen() = true implies that the device
\* handle is present (getFd() is not -1).
C1_OpenImpliesHandle == isOpen => getFd # NoFd

\* C2: a configuration mutator called with a value outside its allowed domain
\* fails with invalid_argument and leaves every piece of state as it was
\* before the call (stored settings, isOpen, the handle, pendingAttributes).
C2_RejectedCallChangesNothing ==
    [][(call'.op \in Mutators /\ ~InDomain(call'.op, call'.arg))
         => (call'.exc = "invalid_argument" /\ Self' = Self)]_vars

\* C3: configBaudRate(rate) succeeds for a rate of the standard table and
\* getBaudRate() then returns rate; for any other rate it fails with
\* invalid_argument and getBaudRate() still returns the rate stored before.
C3_BaudRateAcceptedOrKept ==
    [][call'.op = "configBaudRate"
         => IF call'.arg \in DOMAIN baudRateMap
            THEN call'.exc = "none" /\ getBaudRate' = call'.arg
            ELSE call'.exc = "invalid_argument" /\ getBaudRate' = getBaudRate]_vars

\* C4: configDataBits succeeds for 5, 6, 7 and 8; for any other integer it
\* fails and the stored data-bit setting is retained, so that the open()
\* called next works with the last valid value and not the rejected one.
C4_DataBitsAcceptedOrKept ==
    [][/\ call'.op = "configDataBits"
            => IF call'.arg \in {5, 6, 7, 8}
               THEN call'.exc = "none" /\ _dataBits' = call'.arg
               ELSE call'.exc = "invalid_argument" /\ _dataBits' = _dataBits
       /\ (call.op = "configDataBits" /\ call.exc = "invalid_argument"
             /\ call'.op = "open")
            => (_dataBits' \in {5, 6, 7, 8} /\ _dataBits' # call.arg)]_vars

\* C5: after a successful call of a configuration mutator isOpen() is false,
\* also when the line was open before, and the call neither closes nor
\* changes the device handle.
C5_MutatorMarksNotOpen ==
    [][(call'.op \in Mutators /\ call'.exc = "none")
         => (~isOpen' /\ getFd' = getFd /\ "::close" \notin Range(call'.trace)
             /\ "close" \notin Range(call'.trace))]_vars

\* C5 case: a mutator has succeeded on a line that was open.
C5_Witness ==
    /\ call.op \in Mutators
    /\ call.exc = "none"
    /\ wasOpen
    /\ ~isOpen

C7_CloseNeverOpened ==
    [][(call'.op = "close" /\ ~everOpened)
         => (/\ call'.exc = "none"
             /\ "::close" \notin Range(call'.trace)
             /\ ~isOpen'
             /\ getFd' = NoFd
             /\ Self' = Self)]_vars

\* C7 case: close() has returned on a line that no open() ever opened.
C7_Witness ==
    /\ call.op = "close"
    /\ ~everOpened
    /\ call.exc = "none"
    /\ ~isOpen

\* C8: from any pendingAttributes record, configParity(Even), then
\* configParity(Odd), then configParity(None) gives the record that
\* configParity(None) alone gives.
C8_ParityRoundTrip ==
    LET e == configParity(Self, "E").o
        eo == configParity(e, "O").o
        eon == configParity(eo, "N").o
    IN  eon._tty = configParity(Self, "N").o._tty

\* C9: a mutator changes only the bit-fields of pendingAttributes of its own
\* concern (speed, character size, parity bits, stop-bit flag, RTS/CTS flag,
\* XON/XOFF flags); every other bit-field keeps its value.
C9_MutatorTouchesOwnFieldOnly ==
    [][call'.op \in Mutators
         => (/\ _tty'.c_cflag \ OwnCFlag(call'.op)
                  = _tty.c_cflag \ OwnCFlag(call'.op)
             /\ _tty'.c_iflag \ OwnIFlag(call'.op)
                  = _tty.c_iflag \ OwnIFlag(call'.op)
             /\ call'.op # "configBaudRate"
                  => (/\ _tty'.c_ispeed = _tty.c_ispeed
                      /\ _tty'.c_ospeed = _tty.c_ospeed))]_vars

\* C10: when configure() fails inside open() because a stored setting is
\* invalid, open() calls close(), returns false, leaves isOpen() false and
\* lets no exception reach its caller.
C10_OpenFailsCleanly ==
    [][(call'.op = "open" /\ ~AllValid)
         => (/\ call'.ret = "false"
             /\ call'.exc = "none"
             /\ ~isOpen'
             /\ "close" \in Range(call'.trace))]_vars

\* C10 case: open() has returned false after a failed configure() and the
\* close() it attempted.
C10_Witness ==
    /\ call.op = "open"
    /\ ~AllValid
    /\ call.ret = "false"
    /\ "close" \in Range(call.trace)

-----------------------------------------------------------------------------
(* C11..C19 *)

C12_OpenOnlyAfterDriverOpenAndCommit ==
    [][(~isOpen /\ isOpen')
         => (/\ getFd' # NoFd
             /\ Returned(call'.trace, "tcsetattr", "returned 0"))]_vars

C14_HandleReleasedOnEveryExit ==
    [][/\ (call'.op = "open" /\ call'.ret = "false") => getFd' = NoFd
       /\ call'.op = "~Uart"
            => (/\ getFd' = NoFd
                /\ (isOpen \/ getFd # NoFd)
                     => ("close" \in Range(call'.trace) /\ ~isOpen'))]_vars

\* C15: isOpen() is false after every close() call, also one that throws,
\* and whenever the driver has released the handle isOpen() is false.
C15_CloseMarksNotOpen ==
    [][/\ call'.op = "close" => ~isOpen'
       /\ Returned(call'.trace, "::close", "returned 0") => ~isOpen']_vars

\* C15 case: close() has returned on a line that was open when it was called.
C15_Witness ==
    /\ call.op = "close"
    /\ call.trace = <<"close">>
    /\ wasOpen
    /\ ~isOpen

\* C16: configure(), called by open(), re-applies all six settings through
\* the mutators in the order baud rate, parity, stop bits, data bits,
\* hardware flow control, software flow control; a setting that is rejected
\* does not keep the remaining ones from being re-applied.
C16_AllSixReapplied ==
    [][call'.op = "open"
         => (/\ Len(call'.trace) >= 1 + Len(ClaimedOrder)
             /\ SubSeq(call'.trace, 1, 1 + Len(ClaimedOrder))
                  = <<"configure">> \o ClaimedOrder)]_vars

\* C16 as amended: configure() re-applies the settings through the mutators
\* in the order baud rate, parity, stop bits, data bits, hardware flow
\* control, software flow control, up to and including the first setting that
\* is rejected; the settings after that one are not re-applied, and open()
\* goes on to close() and returns false.
C16_ReappliedUntilFirstRejected ==
    [][call'.op = "open"
         => LET n == FirstRejected
            IN  /\ Len(call'.trace) > 1 + n
                /\ SubSeq(call'.trace, 1, 1 + n)
                     = <<"configure">> \o SubSeq(ClaimedOrder, 1, n)
                /\ call'.trace[2 + n] \notin Mutators
                /\ ~AllValid => (/\ call'.trace[2 + n] = "close"
                                 /\ call'.ret = "false")]_vars

\* C16 case: open() has run configure() up to a rejected stop-bits setting
\* and has not gone on to the data bits.
C16_Witness ==
    /\ call.op = "open"
    /\ call.trace = <<"configure", "configBaudRate", "configParity",
                      "configStopBits", "close">>
    /\ _stopBits \notin {1, 2}

\* C17: setAttributes() makes one set-attributes call; when that call fails
\* it throws the commit error to its caller, when it succeeds it returns
\* normally, and in no case does it leave isOpen() true.
C17_SetAttributesCommitsOnce ==
    [][call'.op = "setAttributes"
         => (/\ Len(call'.trace) = 3
             /\ call'.trace[1] = "setAttributes"
             /\ call'.trace[2] = "tcsetattr"
             /\ (call'.trace[3] = "returned -1")
                  = (call'.exc = "runtime_error")
             /\ (call'.trace[3] = "returned 0") = (call'.exc = "none")
             /\ ~isOpen')]_vars

\* C17 case: setAttributes() has thrown on a line that was open, after a
\* failed tcsetattr.
C17_Witness ==
    /\ call.op = "setAttributes"
    /\ call.exc = "runtime_error"
    /\ wasOpen
    /\ ~isOpen

\* C18: after every open() that returned true pendingAttributes encodes all
\* six stored settings: speed, character size, stop-bit flag, parity-enable
\* and odd-parity flags, RTS/CTS flag and XON/XOFF flags.
C18_OpenEncodesSettings ==
    (call.op = "open" /\ call.ret = "true") => Encodes

====
